---- MODULE Spec2Model ----
(***************************************************************************)
(* A model of fluvii's producer.py: the TransactionalProducer (whose       *)
(* produce delegates to Producer.produce), the envelope construction of    *)
(* Producer._format_produce, the partitioner, topic registration and the   *)
(* delivery confirmation loop.                                             *)
(*                                                                         *)
(* Python values are modelled as follows.  An optional argument is a       *)
(* sequence of length 0 (None) or 1 (the value).  A topic name is a        *)
(* sequence of tokens, the marker '__changelog' being one token, so that   *)
(* "contains the marker" and "ends with the marker" are different          *)
(* questions.  A header value is a record tagged str, bytes or null.       *)
(* A dict is a function.                                                   *)
(***************************************************************************)
EXTENDS Integers, Sequences, FiniteSets, TLC

VARIABLES
    topic_schemas,              \* self.topic_schemas: topic -> serializer
    topic_partition_metadata,   \* self._topic_partition_metadata: topic -> partition count
    value_serializer,           \* self._producer._value_serializer
    active_transaction,         \* self.active_transaction
    clientTxn,                  \* the client's own "a transaction is open"
    qlen,                       \* self._producer.__len__(): the outbound queue length
    pc,                         \* "idle", or the call running the loop: "confirm", "close"
    attempts,                   \* _confirm_produce's parameter
    attempt,                    \* _confirm_produce's local
    flushes,                    \* flush calls made by the running/last _confirm_produce
    entryLen,                   \* the queue length when _confirm_produce was entered
    metrics_manager,            \* self.metrics_manager: None, or the sink's counter per topic
    strictClient,               \* the client refuses a begin inside, a commit/abort outside a transaction
    last,                       \* the last call the caller made, and what came of it
    mark                        \* one earlier enqueue routed by the partitioner, remembered

vars == <<topic_schemas, topic_partition_metadata, value_serializer, active_transaction,
          clientTxn, qlen, pc, attempts, attempt, flushes, entryLen, metrics_manager,
          strictClient, last, mark>>

(***************************************************************************)
(* Bounds of the model.                                                    *)
(***************************************************************************)
MaxPartitions == 3
MaxQueue == 2
MaxAttempts == 3
MaxProduced == 2

(***************************************************************************)
(* Python values.                                                          *)
(***************************************************************************)
None == <<>>
Some(v) == <<v>>

Str(s) == [t |-> "str", v |-> s]
Bytes(s) == [t |-> "bytes", v |-> s]
Null == [t |-> "null", v |-> ""]

EmptyDict == [k \in {} |-> Null]

\* Python's truth value of an optional string, topic name, int or dict.
FalsyStr(o) == o = None \/ o[1] = ""
FalsyTopic(o) == o = None \/ o[1] = <<>>
FalsyInt(o) == o = None \/ o[1] = 0
FalsyDict(o) == o = None \/ DOMAIN o[1] = {}
\* A confluent_kafka Message is a sized object (its length is its payload's),
\* so `if message_passthrough:` is false for None and for an empty payload.
FalsyMessage(o) == o = None \/ o[1].len = 0

Marker == "__changelog"
Contains(name, tok) == \E i \in 1..Len(name) : name[i] = tok
EndsWith(name, tok) == Len(name) > 0 /\ name[Len(name)] = tok

(***************************************************************************)
(* The input sets the specifications draw from.                            *)
(***************************************************************************)
Orders == <<"orders">>
Payments == <<"payments">>
OrdersChangelog == <<"orders", "__changelog">>
ChangelogV2 == <<"orders", "__changelog", "_v2">>
Topics == {Orders, Payments, OrdersChangelog, ChangelogV2}

HeaderKeys == {"guid", "trace"}
\* schemas a topic may be registered with
Schemas == {"s1", "s2"}
\* what uuid.uuid1() may return (that two calls differ is not modelled)
GenGuids == {Str("uuid-1")}
PartitionCounts == 1..MaxPartitions

(***************************************************************************)
(* 4.1 Header enrichment (the first half of _format_produce).              *)
(***************************************************************************)
\* general_utils.parse_headers: the upstream headers as a dict, each value decoded.
DecodeValue(h) == IF h.t = "bytes" THEN Str(h.v) ELSE h
ParseHeaders(hs) == IF hs = None THEN EmptyDict ELSE [k \in DOMAIN hs[1] |-> DecodeValue(hs[1][k])]

\* dict.update
Update(d, e) == [k \in DOMAIN d \cup DOMAIN e |-> IF k \in DOMAIN e THEN e[k] ELSE d[k]]

KeepNull(d) == d
\* {key: value for key, value in headers_out.items() if value is not None}
StripNull(d) == [k \in {j \in DOMAIN d : d[j] # Null} |-> d[k]]

\* if 'guid' not in headers_out: headers_out['guid'] = self._generate_guid()
WithGuid(d, g) == IF "guid" \in DOMAIN d THEN d ELSE Update(d, [k \in {"guid"} |-> g])

\* headers_out before the null strip: the upstream's parsed headers, the caller's over them
MergedHeaders(headers, mp) ==
    Update(IF FalsyMessage(mp) THEN EmptyDict ELSE ParseHeaders(mp[1].headers),
           IF FalsyDict(headers) THEN EmptyDict ELSE headers[1])

HeadersOut(headers, mp, g) == WithGuid(StripNull(MergedHeaders(headers, mp)), g)

\* if message_passthrough: if not key: key = message_passthrough.key()
KeyOut(key, mp) == IF ~FalsyMessage(mp) /\ FalsyStr(key) THEN mp[1].key ELSE key

(***************************************************************************)
(* 4.3 Topic resolution.                                                   *)
(***************************************************************************)
\* [topic for topic in self.topic_schemas if '__changelog' not in topic]
CandidateTopics(schemas) == {t \in DOMAIN schemas : ~Contains(t, Marker)}

\* [ok, topic]: the explicit topic, or the only candidate; not ok raises
\* Exception('Topic must be defined if managing more than 1 topic')
ResolveTopic(topic, schemas) ==
    IF ~FalsyTopic(topic) THEN [ok |-> TRUE, topic |-> topic[1]]
    ELSE IF Cardinality(CandidateTopics(schemas)) = 1
         THEN [ok |-> TRUE, topic |-> CHOOSE t \in CandidateTopics(schemas) : TRUE]
         ELSE [ok |-> FALSE, topic |-> <<>>]

(***************************************************************************)
(* 4.2 Partition routing.                                                  *)
(***************************************************************************)
\* mmh3.hash(key): MurmurHash3 x86_32, seed 0, as a signed 32-bit integer
Hash(k) == CASE k = ""  -> 0
             [] k = "a" -> 1009084850
             [] k = "b" -> -1780580861
             [] k = "u" -> 1646279392

PartitionOffByOne(k, p) == Hash(k) % (p + 1)
\* mmh3.hash(key) % p_count
PartitionOf(k, p) == Hash(k) % p

\* _get_topic_metadata: the cache after a fetch that found `count` partitions
GetTopicMetadata(topic, meta, count) == Update(meta, [t \in {topic} |-> count])

\* a cache that is never consulted: every call asks the collaborator
CacheNeverHits(topic, meta) == FALSE
\* try: p_count = self._topic_partition_metadata[topic]  (except KeyError: a miss)
CacheHit(topic, meta) == topic \in DOMAIN meta

\* _partitioner(key, topic) against the cache `meta`; `fetch` is what the metadata
\* collaborator answers if asked: None (the lookup raises) or Some(count).
\* err: "" | "metadata" (list_topics().topics[topic] raised) | "hash" (mmh3.hash(None))
Partitioner(key, topic, meta, fetch) ==
    LET hit == CacheHit(topic, meta)
        meta1 == IF hit \/ fetch = None THEN meta ELSE GetTopicMetadata(topic, meta, fetch[1])
    IN  IF ~hit /\ fetch = None
        THEN [err |-> "metadata", meta |-> meta, fetched |-> TRUE, p |-> None, partition |-> None]
        ELSE IF key = None
        THEN [err |-> "hash", meta |-> meta1, fetched |-> ~hit, p |-> Some(meta1[topic]),
              partition |-> None]
        ELSE [err |-> "", meta |-> meta1, fetched |-> ~hit, p |-> Some(meta1[topic]),
              partition |-> Some(PartitionOf(key[1], meta1[topic]))]

(***************************************************************************)
(* 4.3 Registration.                                                       *)
(***************************************************************************)
\* AvroSerializer(self._schema_registry, json.dumps(schema))
AvroSerializer(schema) == [avro |-> schema]
\* "value.serializer": lambda: None, the client's value serializer after construction
NoSerializer == [avro |-> "none"]

\* a registration that keeps the serializer a topic already has
AddSerializerFirstWins(topic, schema, schemas) ==
    IF topic \in DOMAIN schemas THEN schemas
    ELSE Update(schemas, [t \in {topic} |-> AvroSerializer(schema)])
\* _add_serializer: self.topic_schemas.update({topic: AvroSerializer(...)})
AddSerializer(topic, schema, schemas) == Update(schemas, [t \in {topic} |-> AvroSerializer(schema)])

(***************************************************************************)
(* 4.4 _format_produce.                                                    *)
(***************************************************************************)
\* a lookup that falls back to a default serializer for a topic never registered
SerializerOrDefault(topic, schemas) ==
    IF topic \in DOMAIN schemas THEN Some(schemas[topic]) ELSE Some(NoSerializer)
\* self.topic_schemas[topic]: None stands for the KeyError of a topic never registered
SerializerFor(topic, schemas) ==
    IF topic \in DOMAIN schemas THEN Some(schemas[topic]) ELSE None

\* a client whose serializer is set once and then kept
KeepFirstSerializer(current, registered) ==
    IF current = NoSerializer THEN registered ELSE current
\* self._producer._value_serializer = self.topic_schemas[topic]
SelectSerializer(current, registered) == registered

\* if not partition: partition = self._partitioner(key, topic)
UsesPartitioner(partition) == FalsyInt(partition)

\* What _format_produce returns or raises, and what it leaves behind.
\* err: "" (returns env) | "ambiguous" | "metadata" | "hash" | "unknown_topic"
\* meta, ser: the partition cache and the client's value serializer afterwards.
FormatProduce(value, key, topic, headers, partition, mp, g, fetch, schemas, meta, ser) ==
    LET key1 == KeyOut(key, mp)
        headers_out == HeadersOut(headers, mp, g)
        rt == ResolveTopic(topic, schemas)
        routed == UsesPartitioner(partition)
        r == Partitioner(key1, rt.topic, meta, fetch)
        meta1 == IF routed THEN r.meta ELSE meta
        registered == SerializerFor(rt.topic, schemas)
        failed(e, m, viaRouter) ==
            [err |-> e, env |-> None, meta |-> m, ser |-> ser, routed |-> viaRouter,
             fetched |-> viaRouter /\ r.fetched, p |-> IF viaRouter THEN r.p ELSE None]
    IN  IF ~rt.ok THEN failed("ambiguous", meta, FALSE)
        ELSE IF routed /\ r.err # "" THEN failed(r.err, r.meta, TRUE)
        ELSE IF registered = None THEN failed("unknown_topic", meta1, routed)
        ELSE [err |-> "",
              env |-> Some([topic |-> rt.topic, key |-> key1, value |-> value,
                            headers |-> headers_out,
                            partition |-> IF routed THEN r.partition[1] ELSE partition[1]]),
              meta |-> meta1, ser |-> SelectSerializer(ser, registered[1]), routed |-> routed,
              fetched |-> routed /\ r.fetched, p |-> IF routed THEN r.p ELSE None]

(***************************************************************************)
(* 4.6 The transaction calls.  `ok` is the client's answer: it accepts the *)
(* call, or raises.                                                        *)
(***************************************************************************)
\* a begin that sets the flag before the client's call, and so also when it raises
BeginSetsFlagFirst(ok, active, open) ==
    [raised |-> ~ok, active |-> TRUE, open |-> IF ok THEN TRUE ELSE open]
\* a begin that forgets the flag
BeginForgetsFlag(ok, active, open) ==
    [raised |-> ~ok, active |-> active, open |-> IF ok THEN TRUE ELSE open]
\* begin_transaction: the flag is set after the client's call returned
BeginTransaction(ok, active, open) ==
    IF ok THEN [raised |-> FALSE, active |-> TRUE, open |-> TRUE]
          ELSE [raised |-> TRUE, active |-> active, open |-> open]

\* commit_transaction: client commit, poll(0), then the flag is cleared
CommitTransaction(ok, active, open) ==
    IF ok THEN [raised |-> FALSE, active |-> FALSE, open |-> FALSE]
          ELSE [raised |-> TRUE, active |-> active, open |-> open]

\* abort_transaction: client abort, then the flag is cleared
AbortTransaction(ok, active, open) ==
    IF ok THEN [raised |-> FALSE, active |-> FALSE, open |-> FALSE]
          ELSE [raised |-> TRUE, active |-> active, open |-> open]

NeverBegins(active) == FALSE
\* if not self.active_transaction: self.begin_transaction()
NeedsBegin(active) == ~active

(***************************************************************************)
(* 4.5 The confirmation loop's tests.                                      *)
(***************************************************************************)
DefaultAttempts == 3

LoopWhileSeveral(len) == len > 1
\* while self._producer.__len__() > 0
LoopContinues(len) == len > 0

MayFlushOnceMore(n, max) == n <= max + 1
\* if attempt <= attempts
MayFlush(n, max) == n <= max

(***************************************************************************)
(* The record of the caller's last call.                                   *)
(***************************************************************************)
Call(op) ==
    [op |-> op, result |-> "ok", began |-> FALSE, env |-> None,
     enqTxn |-> FALSE, args |-> None, routed |-> FALSE, fetched |-> FALSE, p |-> None,
     attempts |-> 0, flushes |-> 0, entryLen |-> 0]

NoCall ==
    [op |-> "init", result |-> "ok", began |-> FALSE, env |-> None,
     enqTxn |-> FALSE, args |-> None, routed |-> FALSE, fetched |-> FALSE, p |-> None,
     attempts |-> 0, flushes |-> 0, entryLen |-> 0]

FetchOutcomes == {None} \cup {Some(n) : n \in PartitionCounts}

confirmVars == <<pc, attempts, attempt, flushes, entryLen>>
registryVars == <<topic_schemas, topic_partition_metadata, value_serializer>>
txnVars == <<active_transaction, clientTxn>>
sinkVars == <<metrics_manager, strictClient>>

\* The client's possible answers to a transaction call (TRUE: accepted, FALSE: it
\* raises).  Any call may fail; a strict client also refuses begin_transaction
\* while a transaction is open and commit/abort while none is.
ClientAnswers(op, open) ==
    IF ~strictClient THEN BOOLEAN
    ELSE IF op = "begin" THEN (IF open THEN {FALSE} ELSE BOOLEAN)
    ELSE (IF open THEN BOOLEAN ELSE {FALSE})

\* self.metrics_manager.inc_messages_produced(n, topic) on a sink that accepts it
IncMessagesProduced(counts, n, topic) == [counts EXCEPT ![topic] = @ + n]

(***************************************************************************)
(* The operations.                                                         *)
(***************************************************************************)
\* TransactionalProducer.begin_transaction()
Begin ==
    /\ pc = "idle"
    /\ \E ok \in ClientAnswers("begin", clientTxn) :
         LET b == BeginTransaction(ok, active_transaction, clientTxn)
         IN  /\ active_transaction' = b.active
             /\ clientTxn' = b.open
             /\ last' = [Call("begin") EXCEPT !.began = TRUE,
                            !.result = IF b.raised THEN "transaction" ELSE "ok"]
    /\ UNCHANGED <<registryVars, qlen, confirmVars, sinkVars, mark>>

\* TransactionalProducer.commit_transaction(); a commit may deliver queued messages
Commit ==
    /\ pc = "idle"
    /\ \E ok \in ClientAnswers("commit", clientTxn) :
         LET c == CommitTransaction(ok, active_transaction, clientTxn)
         IN  /\ active_transaction' = c.active
             /\ clientTxn' = c.open
             /\ last' = [Call("commit") EXCEPT
                            !.result = IF c.raised THEN "transaction" ELSE "ok"]
    /\ qlen' \in 0..qlen
    /\ UNCHANGED <<registryVars, confirmVars, sinkVars, mark>>

\* TransactionalProducer.abort_transaction(); an abort may purge queued messages
Abort ==
    /\ pc = "idle"
    /\ \E ok \in ClientAnswers("abort", clientTxn) :
         LET a == AbortTransaction(ok, active_transaction, clientTxn)
         IN  /\ active_transaction' = a.active
             /\ clientTxn' = a.open
             /\ last' = [Call("abort") EXCEPT
                            !.result = IF a.raised THEN "transaction" ELSE "ok"]
    /\ qlen' \in 0..qlen
    /\ UNCHANGED <<registryVars, confirmVars, sinkVars, mark>>

\* whether this produce call reaches the metadata collaborator (a cache miss in
\* _partitioner): only then does the collaborator's answer matter
AsksMetadata(topic, partition, schemas, meta) ==
    /\ ResolveTopic(topic, schemas).ok
    /\ UsesPartitioner(partition)
    /\ ResolveTopic(topic, schemas).topic \notin DOMAIN meta

\* TransactionalProducer.produce(...), Producer.produce included.  `remember`: the
\* observer keeps this enqueue in `mark` (if the partitioner routed it).
Produce(value, key, topic, headers, partition, mp, remember) ==
    /\ pc = "idle"
    /\ qlen < MaxQueue
    /\ metrics_manager # None => \A t \in DOMAIN metrics_manager[1] :
                                    metrics_manager[1][t] < MaxProduced
    /\ \E beginOk \in (IF NeedsBegin(active_transaction)
                       THEN ClientAnswers("begin", clientTxn) ELSE {TRUE}),
          sinkOk \in (IF metrics_manager = None THEN {TRUE} ELSE BOOLEAN),
          g \in GenGuids,
          fetch \in (IF AsksMetadata(topic, partition, topic_schemas, topic_partition_metadata)
                     THEN FetchOutcomes ELSE {None}) :
         LET began == NeedsBegin(active_transaction)
             b == IF began THEN BeginTransaction(beginOk, active_transaction, clientTxn)
                           ELSE [raised |-> FALSE, active |-> active_transaction,
                                 open |-> clientTxn]
             args == [value |-> value, key |-> key, topic |-> topic, headers |-> headers,
                      partition |-> partition, mp |-> mp]
             f == FormatProduce(value, key, topic, headers, partition, mp, g, fetch,
                                topic_schemas, topic_partition_metadata, value_serializer)
         IN  IF b.raised
             THEN /\ last' = [Call("produce") EXCEPT !.began = TRUE,
                                 !.result = "transaction", !.args = Some(args)]
                  /\ UNCHANGED <<registryVars, txnVars, qlen, metrics_manager, mark>>
             ELSE /\ active_transaction' = b.active
                  /\ clientTxn' = b.open
                  /\ topic_partition_metadata' = f.meta
                  /\ value_serializer' = f.ser
                  /\ qlen' = IF f.err = "" THEN qlen + 1 ELSE qlen
                  \* if self.metrics_manager: inc_messages_produced(1, topic); a sink
                  \* that raises does so after the enqueue
                  /\ metrics_manager' =
                         IF f.err = "" /\ metrics_manager # None /\ sinkOk
                         THEN Some(IncMessagesProduced(metrics_manager[1], 1, f.env[1].topic))
                         ELSE metrics_manager
                  /\ last' = [Call("produce") EXCEPT !.began = began,
                                 !.result = IF f.err # "" THEN f.err
                                            ELSE IF sinkOk THEN "ok" ELSE "metrics",
                                 !.env = f.env, !.enqTxn = (f.err = "" /\ b.active),
                                 !.args = Some(args), !.routed = f.routed,
                                 !.fetched = f.fetched, !.p = f.p]
                  /\ mark' = IF remember /\ f.err = "" /\ f.routed
                             THEN Some([key |-> f.env[1].key, topic |-> f.env[1].topic,
                                        p |-> f.p[1], partition |-> f.env[1].partition])
                             ELSE mark
                  /\ UNCHANGED topic_schemas
    /\ UNCHANGED <<confirmVars, strictClient>>

\* an add_topic that binds the serializer before it fetches the partition count
AddTopicBindsFirst(topic, schema) ==
    /\ pc = "idle"
    /\ topic_schemas' = AddSerializer(topic, schema, topic_schemas)
    /\ \E fetch \in FetchOutcomes :
         IF fetch = None
         THEN /\ last' = [Call("add_topic") EXCEPT !.result = "metadata", !.fetched = TRUE,
                                 !.args = Some([topic |-> topic, schema |-> schema])]
              /\ UNCHANGED topic_partition_metadata
         ELSE /\ topic_partition_metadata' =
                     GetTopicMetadata(topic, topic_partition_metadata, fetch[1])
              /\ last' = [Call("add_topic") EXCEPT !.fetched = TRUE,
                                 !.args = Some([topic |-> topic, schema |-> schema])]
    /\ UNCHANGED <<value_serializer, txnVars, qlen, confirmVars, sinkVars, mark>>

\* Producer.add_topic(topic, schema)
AddTopic(topic, schema) ==
    /\ pc = "idle"
    /\ \E fetch \in FetchOutcomes :
         IF fetch = None
         THEN /\ last' = [Call("add_topic") EXCEPT !.result = "metadata", !.fetched = TRUE,
                                 !.args = Some([topic |-> topic, schema |-> schema])]
              /\ UNCHANGED <<topic_schemas, topic_partition_metadata>>
         ELSE /\ topic_partition_metadata' =
                     GetTopicMetadata(topic, topic_partition_metadata, fetch[1])
              /\ topic_schemas' = AddSerializer(topic, schema, topic_schemas)
              /\ last' = [Call("add_topic") EXCEPT !.fetched = TRUE,
                                 !.args = Some([topic |-> topic, schema |-> schema])]
    /\ UNCHANGED <<value_serializer, txnVars, qlen, confirmVars, sinkVars, mark>>

\* _confirm_produce(attempts=max): attempt = 1, then the loop
ConfirmProduce(max) ==
    /\ pc = "idle"
    /\ pc' = "confirm"
    /\ attempts' = max
    /\ attempt' = 1
    /\ flushes' = 0
    /\ entryLen' = qlen
    /\ UNCHANGED <<registryVars, txnVars, qlen, sinkVars, last, mark>>

\* close(): self._confirm_produce()
Close ==
    /\ pc = "idle"
    /\ pc' = "close"
    /\ attempts' = DefaultAttempts
    /\ attempt' = 1
    /\ flushes' = 0
    /\ entryLen' = qlen
    /\ UNCHANGED <<registryVars, txnVars, qlen, sinkVars, last, mark>>

\* the loop's end, returning or raising: the locals are gone, `last` keeps the outcome
LoopEnds(result) ==
    /\ pc' = "idle"
    /\ attempts' = 0
    /\ attempt' = 0
    /\ flushes' = 0
    /\ entryLen' = 0
    /\ last' = [Call(pc) EXCEPT !.result = result, !.attempts = attempts,
                   !.flushes = flushes, !.entryLen = entryLen]

\* the loop's body: self._producer.flush(timeout=timeout); attempt += 1
\* (a flush that times out is silent: it leaves any part of the queue)
ConfirmFlush ==
    /\ pc \in {"confirm", "close"}
    /\ LoopContinues(qlen)
    /\ MayFlush(attempt, attempts)
    /\ qlen' \in 0..qlen
    /\ attempt' = attempt + 1
    /\ flushes' = flushes + 1
    /\ UNCHANGED <<registryVars, txnVars, pc, attempts, entryLen, sinkVars, last, mark>>

\* raise ProducerTimeoutFailure
ConfirmRaise ==
    /\ pc \in {"confirm", "close"}
    /\ LoopContinues(qlen)
    /\ ~MayFlush(attempt, attempts)
    /\ LoopEnds("timeout")
    /\ UNCHANGED <<registryVars, txnVars, qlen, sinkVars, mark>>

\* the while test fails: _confirm_produce returns
ConfirmReturn ==
    /\ pc \in {"confirm", "close"}
    /\ ~LoopContinues(qlen)
    /\ LoopEnds("returned")
    /\ UNCHANGED <<registryVars, txnVars, qlen, sinkVars, mark>>

\* the client's own thread delivers a queued message
Deliver ==
    /\ qlen > 0
    /\ qlen' = qlen - 1
    /\ UNCHANGED <<registryVars, txnVars, confirmVars, sinkVars, last, mark>>

\* while the loop runs the queue grows again (an enqueue the client accepted from
\* elsewhere, a message it put back for a retry)
Refill ==
    /\ pc \in {"confirm", "close"}
    /\ qlen < MaxQueue
    /\ qlen' = qlen + 1
    /\ UNCHANGED <<registryVars, txnVars, confirmVars, sinkVars, last, mark>>

(***************************************************************************)
(* The state after construction: add_topic ran for every topic of          *)
(* topic_schema_dict (a failed fetch there leaves no producer).            *)
(***************************************************************************)
Constructed(initial, counts) ==
    /\ topic_schemas \in [initial -> {AvroSerializer(s) : s \in {"s1"}}]
    /\ topic_partition_metadata \in [initial -> counts]
    /\ value_serializer = NoSerializer
    /\ active_transaction = FALSE
    /\ clientTxn = FALSE
    /\ qlen = 0
    /\ pc = "idle"
    /\ attempts = 0
    /\ attempt = 0
    /\ flushes = 0
    /\ entryLen = 0
    /\ last = NoCall
    /\ mark = None

\* metrics_manager=None, and a client that may answer any call either way
Plain == metrics_manager = None /\ strictClient = FALSE

(***************************************************************************)
(* Spec: a transactional producer's life: begin, produce, commit, abort,   *)
(* the client free to accept or reject each transaction call, and          *)
(* delivering in the background.                                           *)
(***************************************************************************)
Init == Constructed({Orders}, PartitionCounts) /\ Plain

Next ==
    \/ Begin
    \/ Commit
    \/ Abort
    \/ \E topic \in {None, Some(Orders), Some(Payments)} :
          Produce("v", Some("a"), topic, None, None, None, FALSE)
    \/ Deliver

Spec == Init /\ [][Next]_vars

(***************************************************************************)
(* SpecConfirm: the confirmation loop, entered directly or by close(),     *)
(* over every attempt budget and every way the queue drains or does not.   *)
(***************************************************************************)
InitConfirm == Constructed({Orders}, {1}) /\ Plain

NextConfirm ==
    \/ Produce("v", Some("a"), None, None, None, None, FALSE)
    \/ \E max \in 0..MaxAttempts : ConfirmProduce(max)
    \/ Close
    \/ ConfirmFlush
    \/ ConfirmRaise
    \/ ConfirmReturn
    \/ Deliver

SpecConfirm == InitConfirm /\ [][NextConfirm]_vars

(***************************************************************************)
(* SpecRoute: partition resolution: keys and explicit partitions, with     *)
(* the topic's partition count re-fetched by re-registration.              *)
(***************************************************************************)
KeyInputs == {None} \cup {Some(k) : k \in {"a", "b"}}
PartitionInputs == {None} \cup {Some(n) : n \in 0..(MaxPartitions - 1)}

InitRoute == Constructed({Orders}, PartitionCounts) /\ Plain

NextRoute ==
    \/ \E key \in KeyInputs, partition \in PartitionInputs, remember \in BOOLEAN :
          Produce("v", key, Some(Orders), None, partition, None, remember)
    \/ AddTopic(Orders, "s1")
    \/ Deliver

SpecRoute == InitRoute /\ [][NextRoute]_vars

(***************************************************************************)
(* SpecTopic: topic resolution over every set of registered topics.        *)
(***************************************************************************)
InitTopic == \E initial \in SUBSET Topics : Constructed(initial, PartitionCounts) /\ Plain

NextTopic ==
    \/ Produce("v", Some("a"), None, None, None, None, FALSE)
    \/ Deliver

SpecTopic == InitTopic /\ [][NextTopic]_vars

(***************************************************************************)
(* SpecEnrich: header enrichment and key inheritance: explicit headers     *)
(* against upstream headers, explicit keys against upstream keys.          *)
(***************************************************************************)
Dicts(values) == UNION {[d -> values] : d \in SUBSET HeaderKeys}
HeaderInputs == {None} \cup {Some(d) : d \in Dicts({Null, Str("x")})}
Upstreams(keys, headers) ==
    {None} \cup {Some([key |-> k, headers |-> h, len |-> n]) :
                    k \in keys, h \in headers, n \in {0, 1}}

InitEnrich == Constructed({Orders}, {1}) /\ Plain

NextEnrich ==
    \/ \E headers \in HeaderInputs,
          mp \in Upstreams({Some("u")},
                           {None} \cup {Some(d) : d \in Dicts({Null, Bytes("z")})}) :
          Produce("v", Some("a"), None, headers, None, mp, FALSE)
    \/ \E key \in {None, Some(""), Some("a")},
          mp \in Upstreams({None, Some("u")}, {None}) :
          Produce("v", key, None, None, None, mp, FALSE)

SpecEnrich == InitEnrich /\ [][NextEnrich]_vars

(***************************************************************************)
(* SpecMetrics: a producer constructed with a metrics sink, asked to       *)
(* produce to its registered topic and to one it never registered, with    *)
(* and without a key and a partition.                                      *)
(***************************************************************************)
SinkTopics == {Orders, Payments}
SinkKeys == {None, Some("a")}
SinkPartitions == {None, Some(1)}

InitMetrics ==
    /\ Constructed({Orders}, {2})
    /\ metrics_manager = Some([t \in SinkTopics |-> 0])
    /\ strictClient = FALSE

NextMetrics ==
    \/ \E key \in SinkKeys, topic \in SinkTopics, partition \in SinkPartitions :
          Produce("v", key, Some(topic), None, partition, None, FALSE)
    \/ Deliver

SpecMetrics == InitMetrics /\ [][NextMetrics]_vars

(***************************************************************************)
(* SpecRegistry: topics registered, registered again with another schema   *)
(* and produced to, on a producer constructed with one or both of them;    *)
(* any metadata fetch may fail.                                            *)
(***************************************************************************)
RegistryTopics == {Orders, Payments}

InitRegistry ==
    \E initial \in {{Orders}, RegistryTopics} : Constructed(initial, {1}) /\ Plain

NextRegistry ==
    \/ \E topic \in RegistryTopics, schema \in Schemas : AddTopic(topic, schema)
    \/ \E topic \in RegistryTopics :
          Produce("v", Some("a"), Some(topic), None, None, None, FALSE)
    \/ Deliver

SpecRegistry == InitRegistry /\ [][NextRegistry]_vars

(***************************************************************************)
(* SpecConfirmLive: the confirmation loop against a queue that drains,     *)
(* stays or refills at any moment.  The thread inside _confirm_produce     *)
(* keeps running (each flush returns within its timeout), so the loop's    *)
(* next step is eventually taken.                                          *)
(***************************************************************************)
ConfirmStep == ConfirmFlush \/ ConfirmRaise \/ ConfirmReturn

NextConfirmLive ==
    \/ Produce("v", Some("a"), None, None, None, None, FALSE)
    \/ \E max \in 0..MaxAttempts : ConfirmProduce(max)
    \/ Close
    \/ ConfirmFlush
    \/ ConfirmRaise
    \/ ConfirmReturn
    \/ Deliver
    \/ Refill

SpecConfirmLive == InitConfirm /\ [][NextConfirmLive]_vars /\ WF_vars(ConfirmStep)

(***************************************************************************)
(* SpecStrict: the transaction calls and produce, in any order, against a  *)
(* client that refuses a begin inside a transaction and a commit or abort  *)
(* outside one (and may fail any other call too).  The producer manages    *)
(* one topic, or two, and then a produce without a topic is ambiguous.     *)
(***************************************************************************)
InitStrict ==
    /\ \E initial \in {{Orders}, {Orders, Payments}} : Constructed(initial, PartitionCounts)
    /\ metrics_manager = None
    /\ strictClient = TRUE

NextStrict ==
    \/ Begin
    \/ Commit
    \/ Abort
    \/ \E topic \in {None, Some(Payments)} :
          Produce("v", Some("a"), topic, None, None, None, FALSE)
    \/ Deliver

SpecStrict == InitStrict /\ [][NextStrict]_vars

(***************************************************************************)
(* SpecSerial: messages to two registered topics in any order, one of the  *)
(* topics registered again with a schema of its own.                       *)
(***************************************************************************)
InitSerial == Constructed(RegistryTopics, {1}) /\ Plain

NextSerial ==
    \/ AddTopic(Payments, "s2")
    \/ \E topic \in RegistryTopics, remember \in BOOLEAN :
          Produce("v", Some("a"), Some(topic), None, None, None, remember)
    \/ Deliver

SpecSerial == InitSerial /\ [][NextSerial]_vars

(***************************************************************************)
(* The claims.                                                             *)
(***************************************************************************)
Produced == last.op = "produce" /\ last.env # None
InLoop == pc \in {"confirm", "close"}

\* C1: in transactional mode no message is handed to the client's produce while
\* active_transaction is False; a produce whose auto-begin the client rejects
\* enqueues nothing.
C1_EnqueueOnlyInsideTransaction ==
    /\ Produced => last.enqTxn /\ active_transaction
    /\ (last.op = "produce" /\ last.result = "transaction") => last.env = None

\* C1's case: a produce with no open transaction began one and enqueued.
C1_Witness == Produced /\ last.began /\ qlen > 0

\* C2 (as claimed): after every commit_transaction or abort_transaction, accepted
\* or rejected by the client, active_transaction is False.
C2_CommitAbortAlwaysClose == last.op \in {"commit", "abort"} => ~active_transaction

\* C3 (as claimed): the first produce after a commit or abort invokes the client's
\* begin_transaction again, and a produce that follows a produce which enqueued
\* (no commit or abort between them) does not.
C3_BeginOncePerTransaction ==
    [][/\ (last.op \in {"commit", "abort"} /\ last'.op = "produce") => last'.began
       /\ (Produced /\ last'.op = "produce" /\ qlen' = qlen + 1) => ~last'.began]_vars

\* C4: while the queue stays non-empty the loop flushes until it has flushed
\* `attempts` times and then raises: a timeout comes after exactly `attempts`
\* flush calls, for every attempts >= 0.
C4_ExactlyMaxAttemptsFlushes ==
    /\ InLoop => flushes = attempt - 1 /\ flushes <= attempts
    /\ (InLoop /\ qlen > 0 /\ flushes < attempts) => ENABLED ConfirmFlush /\ ~ENABLED ConfirmRaise
    /\ (InLoop /\ qlen > 0 /\ flushes = attempts) => ENABLED ConfirmRaise /\ ~ENABLED ConfirmFlush
    /\ last.result = "timeout" => last.flushes = last.attempts

\* C4's case: the queue never emptied and the loop raised after all its flushes.
C4_Witness == last.result = "timeout" /\ last.attempts >= 2 /\ last.flushes = last.attempts /\ qlen > 0

\* C5: _confirm_produce (and close) returns only with an empty queue; with the
\* queue non-empty after the last permitted flush it raises and cannot return;
\* entered with an empty queue it returns without a flush.
C5_ReturnsOnlyWhenEmpty ==
    /\ last.result = "returned" => qlen = 0
    /\ (last.result = "returned" /\ last.entryLen = 0) => last.flushes = 0
    /\ (InLoop /\ qlen > 0) => ~ENABLED ConfirmReturn
    /\ (InLoop /\ qlen > 0 /\ flushes = attempts) => ENABLED ConfirmRaise

\* C5's case: close() found messages queued, flushed, and returned.
C5_Witness == last.op = "close" /\ last.result = "returned" /\ last.entryLen > 0 /\ last.flushes > 0

C7_PartitionDeterministicInRange ==
    (Produced /\ last.routed) =>
        /\ last.env[1].partition \in 0..(last.p[1] - 1)
        /\ (/\ mark # None
            /\ mark[1].key = last.env[1].key
            /\ mark[1].topic = last.env[1].topic
            /\ mark[1].p = last.p[1]) => mark[1].partition = last.env[1].partition

\* C7's case: a later message with an earlier one's key, topic and count, and a
\* partition other than 0.
C7_Witness ==
    /\ Produced /\ last.routed /\ mark # None /\ qlen = 2
    /\ last.args[1].partition = None
    /\ mark[1].key = last.env[1].key /\ mark[1].p = last.p[1]
    /\ last.env[1].partition > 0

\* C8 (as claimed): a produce without a topic resolves to the one registered topic
\* that does not END with '__changelog' if there is exactly one, and fails with the
\* ambiguity error, enqueuing nothing, otherwise.
C8_ResolvesIffOneNonSuffixed ==
    (last.op = "produce" /\ last.result # "transaction" /\ last.args[1].topic = None) =>
        LET eligible == {t \in DOMAIN topic_schemas : ~EndsWith(t, Marker)}
        IN  IF Cardinality(eligible) = 1
            THEN last.env # None /\ last.env[1].topic \in eligible
            ELSE last.result = "ambiguous" /\ last.env = None

\* C9 (as claimed): for every explicitly given partition, 0 included, the envelope
\* carries that partition and the partitioner is not consulted.
C9_ExplicitPartitionKept ==
    (Produced /\ last.args[1].partition # None) =>
        /\ last.env[1].partition = last.args[1].partition[1]
        /\ ~last.routed

\* C10 (as claimed): with an upstream message the outgoing key is the upstream's
\* exactly when the caller gave no key, and every key the caller gave, the empty
\* one included, goes out unchanged; without one the key is the caller's.
C10_ExplicitKeyKept ==
    (Produced /\ (last.args[1].mp = None \/ ~FalsyMessage(last.args[1].mp))) =>
        last.env[1].key = IF last.args[1].mp # None /\ last.args[1].key = None
                          THEN last.args[1].mp[1].key
                          ELSE last.args[1].key


\* C11: a produce with no key at all (none given, no upstream message) and no
\* partition given resolves its partition without failing in the partitioner: the
\* message is handed over with a partition in [0, p), the same one as an earlier
\* keyless message to the same topic under the same p.
C11_NullKeyPartitionWellDefined ==
    (/\ last.op = "produce"
     /\ last.result # "transaction"
     /\ last.args[1].key = None
     /\ last.args[1].mp = None
     /\ last.args[1].partition = None) =>
        /\ last.result # "hash"
        /\ Produced
        /\ last.env[1].partition \in 0..(last.p[1] - 1)
        /\ (/\ mark # None
            /\ mark[1].key = None
            /\ mark[1].topic = last.env[1].topic
            /\ mark[1].p = last.p[1]) => mark[1].partition = last.env[1].partition

\* A produce step: the caller's produce has just run (Deliver only shortens the
\* queue, every other call leaves another name in last.op).
ProduceStep == last'.op = "produce" /\ qlen' >= qlen

\* C12: the metrics sink is best-effort.  A produce that enqueued its message
\* completes successfully even when the sink's increment fails; the counter of the
\* resolved topic goes up by one when the sink takes the increment and by nothing
\* otherwise; a produce that enqueued nothing leaves every counter alone.
C12_MetricsBestEffort ==
    [][ProduceStep =>
          IF qlen' = qlen + 1
          THEN /\ last'.result = "ok"
               /\ metrics_manager' \in
                     {metrics_manager,
                      Some(IncMessagesProduced(metrics_manager[1], 1, last'.env[1].topic))}
          ELSE metrics_manager' = metrics_manager]_vars

\* An add_topic step: the caller's add_topic has just run.
AddTopicStep == last'.op = "add_topic" /\ qlen' = qlen

\* C13: registering a topic again overwrites its serializer and nothing else.  A
\* successful add_topic(t, s) leaves t bound to the serializer built from s and
\* every other registration as it was; nothing but a successful add_topic changes
\* a registration; and a produce is enqueued with the serializer its topic is
\* bound to, hence the one of the last add_topic for it.
C13_LastRegistrationWins ==
    [][/\ (AddTopicStep /\ last'.result = "ok") =>
              LET a == last'.args[1]
              IN  /\ DOMAIN topic_schemas' = DOMAIN topic_schemas \cup {a.topic}
                  /\ topic_schemas'[a.topic] = AvroSerializer(a.schema)
                  /\ \A u \in DOMAIN topic_schemas \ {a.topic} :
                        topic_schemas'[u] = topic_schemas[u]
       /\ ~(AddTopicStep /\ last'.result = "ok") => topic_schemas' = topic_schemas
       /\ (ProduceStep /\ qlen' = qlen + 1) =>
              value_serializer' = topic_schemas[last'.env[1].topic]]_vars

\* C13's case: a message to orders, constructed with schema s1 and registered again
\* with s2, enqueued with the s2 serializer while payments keeps its own.
C13_Witness ==
    /\ Produced
    /\ last.env[1].topic = Orders
    /\ value_serializer = AvroSerializer("s2")
    /\ topic_schemas[Orders] = AvroSerializer("s2")
    /\ Payments \in DOMAIN topic_schemas
    /\ topic_schemas[Payments] = AvroSerializer("s1")

\* C14: the partitioner and the partition-count cache.  On a hit the metadata
\* collaborator is not asked, the cache is left alone and the cached count is
\* used; on a miss the collaborator is asked, and either its lookup raises, and
\* then nothing is cached, no count is used and nothing is enqueued, or its count
\* is the one entry added to the cache and the count the partition is taken from.
C14_CacheHitOrSingleFetch ==
    [][(ProduceStep /\ last'.routed) =>
          LET t == ResolveTopic(last'.args[1].topic, topic_schemas).topic
              meta == topic_partition_metadata
          IN  /\ IF t \in DOMAIN meta
                 THEN /\ ~last'.fetched
                      /\ topic_partition_metadata' = meta
                      /\ last'.p = Some(meta[t])
                 ELSE /\ last'.fetched
                      /\ IF last'.result = "metadata"
                         THEN /\ topic_partition_metadata' = meta
                              /\ last'.p = None
                              /\ last'.env = None
                              /\ qlen' = qlen
                         ELSE /\ DOMAIN topic_partition_metadata' = DOMAIN meta \cup {t}
                              /\ \A u \in DOMAIN meta : topic_partition_metadata'[u] = meta[u]
                              /\ last'.p = Some(topic_partition_metadata'[t])
              /\ last'.env # None =>
                    last'.env[1].partition = Hash(last'.env[1].key[1]) % last'.p[1]]_vars

\* C14's case: a produce to a topic whose count was not cached asked the
\* collaborator, and the count it answered is now the cached one.
C14_Witness ==
    /\ last.op = "produce"
    /\ last.routed
    /\ last.fetched
    /\ last.p # None
    /\ last.args[1].topic = Some(Payments)
    /\ topic_partition_metadata[Payments] = last.p[1]

\* A produce step whose caller named a topic that is not registered.
UnregisteredStep ==
    /\ ProduceStep
    /\ ~FalsyTopic(last'.args[1].topic)
    /\ last'.args[1].topic[1] \notin DOMAIN topic_schemas

\* C15 as stated: every produce to an explicit topic outside the registered set,
\* with or without a partition, fails with the unknown-topic error; nothing is
\* enqueued and no counter is incremented.  (Stated for calls that carry a key and
\* got past the transaction begin.)
C15_AlwaysUnknownTopicError ==
    [][(/\ UnregisteredStep
        /\ last'.result # "transaction"
        /\ last'.args[1].key # None) =>
          /\ last'.result = "unknown_topic"
          /\ last'.env = None
          /\ qlen' = qlen
          /\ metrics_manager' = metrics_manager]_vars

\* C15: every produce to an explicit topic outside the registered set fails,
\* enqueues nothing, increments no counter and registers nothing.  The failure is
\* the unknown-topic error unless an earlier step failed first: the transaction
\* begin, or, when no partition was given, the partitioner (the metadata fetch of
\* an uncached topic, or the hash of an absent key).
C15_UnregisteredTopicFails ==
    [][UnregisteredStep =>
          LET a == last'.args[1]
          IN  /\ last'.result \in {"unknown_topic", "metadata", "hash", "transaction"}
              /\ last'.env = None
              /\ qlen' = qlen
              /\ metrics_manager' = metrics_manager
              /\ topic_schemas' = topic_schemas
              /\ last'.result = "transaction" => NeedsBegin(active_transaction)
              /\ last'.result \in {"metadata", "hash"} => UsesPartitioner(a.partition)
              /\ last'.result = "metadata" =>
                    ~CacheHit(a.topic[1], topic_partition_metadata)
              /\ last'.result = "hash" => KeyOut(a.key, a.mp) = None]_vars

\* C15's case: a produce to the unregistered payments topic, with no partition
\* given, has failed in the metadata fetch, before the serializer lookup.
C15_Witness ==
    /\ last.op = "produce"
    /\ last.args[1].topic = Some(Payments)
    /\ last.args[1].partition = None
    /\ Payments \notin DOMAIN topic_schemas
    /\ last.result = "metadata"
    /\ last.env = None

\* C16: the confirmation loop terminates within its attempt budget, however the
\* queue behaves.  At no moment has a run flushed more often than max_attempts,
\* and every run that was started ends: _confirm_produce returns or raises.
C16_LoopTerminatesWithinBudget ==
    /\ [](/\ flushes <= attempts
          /\ last.op \in {"confirm", "close"} => last.flushes <= last.attempts)
    /\ InLoop ~> (/\ pc = "idle"
                  /\ last.op \in {"confirm", "close"}
                  /\ last.result \in {"returned", "timeout"})

\* C16's case: a run entered with one message queued saw the queue refill to two,
\* flushed three times and raised.
C16_Witness ==
    /\ pc = "idle"
    /\ last.op = "confirm"
    /\ last.result = "timeout"
    /\ last.entryLen = 1
    /\ last.attempts = 3
    /\ last.flushes = 3
    /\ qlen = 2

\* C17: the client's value serializer follows the topic.  Whenever a message has
\* been handed to the client, the serializer the client holds is the one registered
\* for that message's topic, whichever topic the message before it went to.
C17_SerializerMatchesTopic ==
    Produced =>
        /\ last.env[1].topic \in DOMAIN topic_schemas
        /\ value_serializer = topic_schemas[last.env[1].topic]

\* C17's case: after a message to orders (schema s1), a message to payments is
\* enqueued under the payments serializer (schema s2).
C17_Witness ==
    /\ Produced
    /\ mark # None
    /\ mark[1].topic = Orders
    /\ last.env[1].topic = Payments
    /\ topic_schemas[Orders] = AvroSerializer("s1")
    /\ topic_schemas[Payments] = AvroSerializer("s2")
    /\ value_serializer = AvroSerializer("s2")

\* C18: the registry and the partition-count cache stay consistent.  Every topic
\* bound to a serializer has a cached partition count, from construction on; no
\* call removes a registration or a cache entry; and an add_topic whose metadata
\* fetch failed has bound nothing and changed no registration and no cache entry.
C18_RegisteredTopicsAreCached ==
    /\ DOMAIN topic_schemas \subseteq DOMAIN topic_partition_metadata
    /\ [][/\ DOMAIN topic_schemas' \subseteq DOMAIN topic_partition_metadata'
          /\ DOMAIN topic_schemas \subseteq DOMAIN topic_schemas'
          /\ DOMAIN topic_partition_metadata \subseteq DOMAIN topic_partition_metadata'
          /\ (AddTopicStep /\ last'.result = "metadata") =>
                /\ topic_schemas' = topic_schemas
                /\ topic_partition_metadata' = topic_partition_metadata]_vars

\* C18's case: add_topic for payments failed in its fetch; payments has a cached
\* count (from an earlier produce) and still no serializer.
C18_Witness ==
    /\ last.op = "add_topic"
    /\ last.result = "metadata"
    /\ last.args[1].topic = Payments
    /\ Payments \notin DOMAIN topic_schemas
    /\ Payments \in DOMAIN topic_partition_metadata

BeganThenFailed(call) ==
    /\ call.op = "produce"
    /\ call.began
    /\ call.result \in {"ambiguous", "unknown_topic", "metadata"}

\* C20: the automatic begin is not rolled back.  A produce that began a
\* transaction and then failed building its envelope (ambiguous topic, unknown
\* topic, failed metadata fetch) enqueued nothing and left the transaction open,
\* flag and client both; and a produce called next that enqueues does so inside
\* that transaction, without another begin.
C20_AutoBeginNotRolledBack ==
    [][/\ (ProduceStep /\ BeganThenFailed(last')) =>
              /\ ~active_transaction
              /\ qlen' = qlen
              /\ last'.env = None
              /\ active_transaction'
              /\ clientTxn'
       /\ (ProduceStep /\ BeganThenFailed(last) /\ qlen' = qlen + 1) =>
              /\ active_transaction /\ clientTxn
              /\ ~last'.began
              /\ last'.enqTxn
              /\ active_transaction' /\ clientTxn']_vars

\* C20's case: a produce without a topic on a producer managing two began a
\* transaction and failed as ambiguous; the transaction is open, the queue empty.
C20_Witness ==
    /\ BeganThenFailed(last)
    /\ last.result = "ambiguous"
    /\ active_transaction
    /\ clientTxn
    /\ qlen = 0

============================================================================
